---- MODULE Spec2Model ----
(***************************************************************************)
(* Model of libsharedringbuffer (shared_ringbuffer.h): a single-producer / *)
(* single-consumer ring of buffer descriptors with two free-running 32-bit *)
(* cursors, and the enqueue / dequeue operations on it.                    *)
(*                                                                         *)
(* A channel (ring_handle_t) pairs an avail ring and a used ring with a    *)
(* notify callback.  The specifications share the variables:               *)
(*   Spec      every call to enqueue / dequeue is one atomic action        *)
(*   SpecSteps every memory access of a call is one atomic step, producer  *)
(*             and consumer interleave, memory is sequentially consistent  *)
(*   SpecWeak  as SpecSteps, but a store first enters the storing side's   *)
(*             store buffer; buffered stores reach shared memory in any    *)
(*             order, and THREAD_MEMORY_RELEASE() drains the buffer        *)
(*   SpecLive  as SpecSteps, with a producer that retries, a consumer that *)
(*             polls, and weak fairness of both                            *)
(*   SpecChan  two endpoints A and B hand buffers to each other through    *)
(*             the avail and used rings of a channel, one call at a time   *)
(*   SpecSignal as SpecChan, with calls of notify and register_notification *)
(***************************************************************************)
EXTENDS Integers, Sequences, FiniteSets, TLC

VARIABLES DESC_COUNT,   \* CONFIG_LIB_SHARED_RINGBUFFER_DESC_COUNT of this build
          ring,         \* the ring_buffer_t in shared memory
          out,          \* the caller's addr / len / cookie variables given to dequeue
          calls,        \* Spec: the completed calls, [op, ret], in order
          enqueued,     \* descriptors of the successful enqueues, in order
          dequeued,     \* descriptors returned by the successful dequeues, in order
          live,         \* slots holding an entry that is enqueued and not yet read out
          clobbered,    \* TRUE once a slot in live has been written
          mm,           \* memory model of the run: "sc" or "weak"
          p,            \* producer: position in enqueue, arguments, result
          c,            \* consumer: position in dequeue, result
          sb,           \* SpecWeak: pending stores of each side
          handle,       \* SpecChan: the ring_handle_t, with the two rings it points to
          ends,         \* SpecChan: the descriptors A and B hold, and what they passed
          clog,         \* SpecChan: the completed calls, [op, ret, desc], in order
          invoked       \* SpecChan: the callbacks invoked so far, in order

ringvars == <<ring, out, calls, enqueued, dequeued, live, clobbered, mm, p, c, sb>>

chanvars == <<handle, ends, clog, invoked>>

vars == <<DESC_COUNT, ringvars, chanvars>>

-----------------------------------------------------------------------------
(* Bounds of the model *)

\* slot counts 2..MaxDescCount are explored
MaxDescCount == 4
\* a ring may start WrapMargin increments before the 2^32 wrap of its cursors
WrapMargin == 2
\* number of calls in a run of Spec
MaxCalls == 7
\* number of successful enqueues in a run of SpecSteps / SpecWeak
MaxEnq == 3
\* number of ring calls in a run of SpecChan
MaxChanCalls == 9
\* number of ring calls in a run of SpecSignal
MaxSignalCalls == 4
\* number of notify calls in a run of SpecSignal
MaxNotify == 2

-----------------------------------------------------------------------------
(* uint32_t arithmetic.  A cursor is kept as its two 16-bit halves, so     *)
(* that every intermediate value stays inside the integers of the checker  *)
(* while the arithmetic is exactly arithmetic modulo 2^32.                 *)

Half == 65536

U32 == [hi : 0..(Half - 1), lo : 0..(Half - 1)]

U32Of(n) == [hi |-> n \div Half, lo |-> n % Half]

U32Zero == [hi |-> 0, lo |-> 0]

\* a + 1 (mod 2^32)
U32Inc(a) ==
    IF a.lo = Half - 1
    THEN [hi |-> (a.hi + 1) % Half, lo |-> 0]
    ELSE [hi |-> a.hi, lo |-> a.lo + 1]

\* U32Sub with the borrow out of the low half dropped
U32Sub_noborrow(a, b) ==
    [hi |-> (a.hi - b.hi + Half) % Half,
     lo |-> (a.lo - b.lo + Half) % Half]

\* a - b (mod 2^32)
U32Sub(a, b) ==
    LET borrow == IF a.lo < b.lo THEN 1 ELSE 0
    IN  [hi |-> (a.hi - b.hi - borrow + 2 * Half) % Half,
         lo |-> (a.lo - b.lo + Half) % Half]

\* a % n, for 0 < n < 2^15
U32Mod(a, n) == ((a.hi * (Half % n)) + a.lo) % n

\* 2^32 - k, for 0 < k <= 2^16
U32Neg(k) == [hi |-> Half - 1, lo |-> Half - k]

-----------------------------------------------------------------------------
(* Data *)

\* buff_desc_t
buff_desc(addr, len, cookie) == [encoded_addr |-> addr, len |-> len, cookie |-> cookie]

\* the descriptors a caller passes to enqueue
Descs == {buff_desc(1, 2, 3), buff_desc(4, 5, 6)}

\* zeroed memory
ZeroDesc == buff_desc(0, 0, 0)

DescCounts == 2..MaxDescCount

Slots == 0..(DESC_COUNT - 1)

\* cursor values a ring is started from: freshly zeroed, or after
\* 2^32 - WrapMargin enqueue / dequeue cycles
StartCursors == {U32Zero, U32Neg(WrapMargin)}

\* ring_buffer_t: empty, both cursors at c0
ring_buffer(n, c0) ==
    [buffers |-> [i \in 0..(n - 1) |-> ZeroDesc], write_idx |-> c0, read_idx |-> c0]

-----------------------------------------------------------------------------
(* The functions of shared_ringbuffer.h *)

\* ring_empty comparing the slot positions of the two cursors
ring_empty_slots(r) == U32Mod(r.write_idx, DESC_COUNT) = U32Mod(r.read_idx, DESC_COUNT)

ring_empty(r) == U32Mod(U32Sub(r.write_idx, r.read_idx), DESC_COUNT) = 0

\* ring_full that lets all DESC_COUNT slots be filled
ring_full_allslots(r) ==
    U32Mod(U32Inc(U32Sub(r.write_idx, r.read_idx)), DESC_COUNT + 1) = 0

ring_full(r) == U32Mod(U32Inc(U32Sub(r.write_idx, r.read_idx)), DESC_COUNT) = 0

\* enqueue that tests ring_empty, as its documentation has it
enqueue_emptytest(r, buffer, len, cookie) ==
    IF ring_empty(r)
    THEN [ring |-> r, ret |-> -1]
    ELSE LET slot == U32Mod(r.write_idx, DESC_COUNT)
         IN  [ring |-> [r EXCEPT !.buffers[slot] = buff_desc(buffer, len, cookie),
                                 !.write_idx = U32Inc(@)],
              ret |-> 0]

\* enqueue that keeps write_idx below DESC_COUNT
enqueue_wrapidx(r, buffer, len, cookie) ==
    IF ring_full(r)
    THEN [ring |-> r, ret |-> -1]
    ELSE LET slot == U32Mod(r.write_idx, DESC_COUNT)
         IN  [ring |-> [r EXCEPT !.buffers[slot] = buff_desc(buffer, len, cookie),
                                 !.write_idx = U32Of(U32Mod(U32Inc(@), DESC_COUNT))],
              ret |-> 0]

\* enqueue that fills the slot before it tests ring_full
enqueue_writefirst(r, buffer, len, cookie) ==
    LET slot    == U32Mod(r.write_idx, DESC_COUNT)
        written == [r EXCEPT !.buffers[slot] = buff_desc(buffer, len, cookie)]
    IN  IF ring_full(r)
        THEN [ring |-> written, ret |-> -1]
        ELSE [ring |-> [written EXCEPT !.write_idx = U32Inc(@)], ret |-> 0]

\* enqueue as one call: the ring after the call and the value returned
enqueue(r, buffer, len, cookie) ==
    IF ring_full(r)
    THEN [ring |-> r, ret |-> -1]
    ELSE LET slot == U32Mod(r.write_idx, DESC_COUNT)
         IN  [ring |-> [r EXCEPT !.buffers[slot] = buff_desc(buffer, len, cookie),
                                 !.write_idx = U32Inc(@)],
              ret |-> 0]

\* dequeue that copies the slot out before it tests ring_empty
dequeue_readfirst(r, o) ==
    LET slot == U32Mod(r.read_idx, DESC_COUNT)
    IN  IF ring_empty(r)
        THEN [ring |-> r, out |-> r.buffers[slot], ret |-> -1]
        ELSE [ring |-> [r EXCEPT !.read_idx = U32Inc(@)],
              out |-> r.buffers[slot],
              ret |-> 0]

\* dequeue that leaves read_idx where it is
dequeue_noinc(r, o) ==
    IF ring_empty(r)
    THEN [ring |-> r, out |-> o, ret |-> -1]
    ELSE [ring |-> r, out |-> r.buffers[U32Mod(r.read_idx, DESC_COUNT)], ret |-> 0]

\* dequeue as one call: the ring and the caller's outputs after the call,
\* and the value returned
dequeue(r, o) ==
    IF ring_empty(r)
    THEN [ring |-> r, out |-> o, ret |-> -1]
    ELSE LET slot == U32Mod(r.read_idx, DESC_COUNT)
         IN  [ring |-> [r EXCEPT !.read_idx = U32Inc(@)],
              out |-> r.buffers[slot],
              ret |-> 0]

-----------------------------------------------------------------------------
(* The channel: ring_handle_t and its functions *)

\* the callbacks an endpoint may register
Callbacks == {"cb1", "cb2"}

\* ring_init: the handle wired to its two rings and its callback
ring_init(avail, used, fn) == [used_ring |-> used, avail_ring |-> avail, notify |-> fn]

\* register_notification: the handle with the callback replaced
register_notification(h, fn) == [h EXCEPT !.notify = fn]

\* notify that signals only when the used ring holds work
notify_ifwork(h) ==
    IF U32Sub(h.used_ring.write_idx, h.used_ring.read_idx) = U32Zero
    THEN <<>>
    ELSE <<h.notify>>

\* notify: the callbacks the call invokes, in order
notify(h) == <<h.notify>>

\* the four directional calls: the handle and the caller's outputs after the
\* call, and the value returned
enqueue_avail(h, addr, len, cookie) ==
    LET res == enqueue(h.avail_ring, addr, len, cookie)
    IN  [handle |-> [h EXCEPT !.avail_ring = res.ring], ret |-> res.ret]

\* enqueue_used that enqueues into the avail ring
enqueue_used_avail(h, addr, len, cookie) ==
    LET res == enqueue(h.avail_ring, addr, len, cookie)
    IN  [handle |-> [h EXCEPT !.avail_ring = res.ring], ret |-> res.ret]

enqueue_used(h, addr, len, cookie) ==
    LET res == enqueue(h.used_ring, addr, len, cookie)
    IN  [handle |-> [h EXCEPT !.used_ring = res.ring], ret |-> res.ret]

dequeue_avail(h, o) ==
    LET res == dequeue(h.avail_ring, o)
    IN  [handle |-> [h EXCEPT !.avail_ring = res.ring], out |-> res.out, ret |-> res.ret]

dequeue_used(h, o) ==
    LET res == dequeue(h.used_ring, o)
    IN  [handle |-> [h EXCEPT !.used_ring = res.ring], out |-> res.out, ret |-> res.ret]

\* the endpoints at the start: A holds every buffer, B holds none, and
\* nothing has been offered, taken, reclaimed or signalled; origin keeps the
\* cursor value the rings started from, budget the number of ring calls of
\* the run
NoTraffic(c0, budget) ==
    [a_held |-> Descs, a_out |-> ZeroDesc, b_held |-> <<>>, b_out |-> ZeroDesc,
     offered |-> <<>>, taken |-> <<>>, reclaimed |-> <<>>, notifies |-> 0,
     origin |-> c0, budget |-> budget]

\* a channel on which nothing has happened yet, both rings empty at cursor c0
InitHandle(c0, budget) ==
    /\ handle = ring_init(ring_buffer(DESC_COUNT, c0), ring_buffer(DESC_COUNT, c0), "cb1")
    /\ ends = NoTraffic(c0, budget)
    /\ clog = <<>>
    /\ invoked = <<>>

-----------------------------------------------------------------------------
(* Spec: one producer and one consumer call enqueue and dequeue, one call  *)
(* at a time.                                                              *)

\* number of entries enqueued and not yet dequeued (bookkeeping)
Outstanding == Len(enqueued) - Len(dequeued)

IdleProd == [pc |-> "idle", desc |-> ZeroDesc, ret |-> 0]

IdleCons == [pc |-> "idle", ret |-> 0]

NoStores == [prod |-> <<>>, cons |-> <<>>]

InitRing(model) ==
    /\ DESC_COUNT \in DescCounts
    /\ \E c0 \in StartCursors : ring = ring_buffer(DESC_COUNT, c0)
    /\ out = ZeroDesc
    /\ calls = <<>>
    /\ enqueued = <<>>
    /\ dequeued = <<>>
    /\ live = {}
    /\ clobbered = FALSE
    /\ mm = model
    /\ p = IdleProd
    /\ c = IdleCons
    /\ sb = NoStores
    /\ InitHandle(U32Zero, 0)

Init == InitRing("sc")

\* a call enqueue(&ring, d.encoded_addr, d.len, d.cookie)
Enqueue ==
    \E d \in Descs :
        LET res  == enqueue(ring, d.encoded_addr, d.len, d.cookie)
            slot == U32Mod(ring.write_idx, DESC_COUNT)
        IN  /\ Len(calls) < MaxCalls
            /\ ring' = res.ring
            /\ calls' = Append(calls, [op |-> "enqueue", ret |-> res.ret])
            /\ enqueued' = IF res.ret = 0 THEN Append(enqueued, d) ELSE enqueued
            /\ live' = IF res.ret = 0 THEN live \cup {slot} ELSE live
            /\ clobbered' = (clobbered \/ (res.ret = 0 /\ slot \in live))
            /\ UNCHANGED <<DESC_COUNT, out, dequeued, mm, p, c, sb, chanvars>>

\* a call dequeue(&ring, &out.encoded_addr, &out.len, &out.cookie)
Dequeue ==
    LET res  == dequeue(ring, out)
        slot == U32Mod(ring.read_idx, DESC_COUNT)
    IN  /\ Len(calls) < MaxCalls
        /\ ring' = res.ring
        /\ out' = res.out
        /\ calls' = Append(calls, [op |-> "dequeue", ret |-> res.ret])
        /\ dequeued' = IF res.ret = 0 THEN Append(dequeued, res.out) ELSE dequeued
        /\ live' = IF res.ret = 0 THEN live \ {slot} ELSE live
        /\ UNCHANGED <<DESC_COUNT, enqueued, clobbered, mm, p, c, sb, chanvars>>

Next == Enqueue \/ Dequeue

Spec == Init /\ [][Next]_vars

-----------------------------------------------------------------------------
(* SpecSteps / SpecWeak: the producer runs enqueue and the consumer runs   *)
(* dequeue concurrently, one memory access per step.                       *)

\* a store to shared memory: loc is <<"write_idx">>, <<"read_idx">> or
\* <<"buffers", slot, field>>
MemStore(loc, val) == [loc |-> loc, val |-> val]

\* shared memory r after store st has reached it
Apply(r, st) ==
    IF st.loc[1] = "write_idx" THEN [r EXCEPT !.write_idx = st.val]
    ELSE IF st.loc[1] = "read_idx" THEN [r EXCEPT !.read_idx = st.val]
    ELSE [r EXCEPT !.buffers[st.loc[2]][st.loc[3]] = st.val]

\* side issues a store: it reaches memory at once under "sc", and enters the
\* side's store buffer under "weak"
Store(side, loc, val) ==
    IF mm = "weak"
    THEN /\ sb' = [sb EXCEPT ![side] = Append(@, MemStore(loc, val))]
         /\ ring' = ring
    ELSE /\ ring' = Apply(ring, MemStore(loc, val))
         /\ sb' = sb

\* the ring as side reads it: shared memory, with the side's own pending
\* stores applied in program order
RECURSIVE Forward(_, _)
Forward(r, stores) ==
    IF stores = <<>> THEN r ELSE Forward(Apply(r, Head(stores)), Tail(stores))

View(side) == Forward(ring, sb[side])

\* a pending store of side reaches shared memory; stores to different
\* locations may do so in either order
Flush(side) ==
    \E i \in 1..Len(sb[side]) :
        /\ \A j \in 1..(i - 1) : sb[side][j].loc # sb[side][i].loc
        /\ ring' = Apply(ring, sb[side][i])
        /\ sb' = [sb EXCEPT ![side] =
                     SubSeq(@, 1, i - 1) \o SubSeq(@, i + 1, Len(@))]
        /\ UNCHANGED <<DESC_COUNT, out, calls, enqueued, dequeued, live,
                       clobbered, mm, p, c, chanvars>>

\* THREAD_MEMORY_RELEASE(): the stores issued before it are in memory
\* before any store issued after it
Released(side) == sb[side] = <<>>

Frame == UNCHANGED <<DESC_COUNT, calls, mm, chanvars>>

\* the producer calls enqueue(&ring, d.encoded_addr, d.len, d.cookie)
P_call ==
    \E d \in Descs :
        /\ p.pc = "idle"
        /\ Len(enqueued) < MaxEnq
        /\ p' = [pc |-> "full", desc |-> d, ret |-> p.ret]
        /\ Frame
        /\ UNCHANGED <<ring, out, enqueued, dequeued, live, clobbered, c, sb>>

\* enqueue that waits for the consumer to make room
P_full_wait ==
    /\ p.pc = "full"
    /\ ~ring_full(View("prod"))
    /\ p' = [p EXCEPT !.pc = "w_addr"]
    /\ Frame
    /\ UNCHANGED <<ring, out, enqueued, dequeued, live, clobbered, c, sb>>

\* if (ring_full(ring)) return -1;
P_full ==
    /\ p.pc = "full"
    /\ p' = IF ring_full(View("prod"))
            THEN [p EXCEPT !.pc = "idle", !.ret = -1]
            ELSE [p EXCEPT !.pc = "w_addr"]
    /\ Frame
    /\ UNCHANGED <<ring, out, enqueued, dequeued, live, clobbered, c, sb>>

\* ring->buffers[ring->write_idx % DESC_COUNT].<field> = <argument>;
P_write(pc, field, next) ==
    LET slot == U32Mod(View("prod").write_idx, DESC_COUNT)
    IN  /\ p.pc = pc
        /\ Store("prod", <<"buffers", slot, field>>, p.desc[field])
        /\ p' = [p EXCEPT !.pc = next]
        /\ clobbered' = (clobbered \/ slot \in live)
        /\ Frame
        /\ UNCHANGED <<out, enqueued, dequeued, live, c>>

P_w_addr == P_write("w_addr", "encoded_addr", "w_len")

P_w_len == P_write("w_len", "len", "w_cookie")

P_w_cookie == P_write("w_cookie", "cookie", "inc")

\* ring->write_idx++;
P_inc ==
    /\ p.pc = "inc"
    /\ Store("prod", <<"write_idx">>, U32Inc(View("prod").write_idx))
    /\ p' = [p EXCEPT !.pc = "rel"]
    /\ enqueued' = Append(enqueued, p.desc)
    /\ live' = live \cup {U32Mod(View("prod").write_idx, DESC_COUNT)}
    /\ Frame
    /\ UNCHANGED <<out, dequeued, clobbered, c>>

\* THREAD_MEMORY_RELEASE(); return 0;
P_rel ==
    /\ p.pc = "rel"
    /\ Released("prod")
    /\ p' = [p EXCEPT !.pc = "idle", !.ret = 0]
    /\ Frame
    /\ UNCHANGED <<ring, out, enqueued, dequeued, live, clobbered, c, sb>>

\* the consumer calls dequeue(&ring, &out.encoded_addr, &out.len, &out.cookie)
C_call ==
    /\ c.pc = "idle"
    /\ c' = [c EXCEPT !.pc = "empty"]
    /\ Frame
    /\ UNCHANGED <<ring, out, enqueued, dequeued, live, clobbered, p, sb>>

\* if (ring_empty(ring)) return -1;
C_empty ==
    /\ c.pc = "empty"
    /\ c' = IF ring_empty(View("cons"))
            THEN [c EXCEPT !.pc = "idle", !.ret = -1]
            ELSE [c EXCEPT !.pc = "r_addr"]
    /\ Frame
    /\ UNCHANGED <<ring, out, enqueued, dequeued, live, clobbered, p, sb>>

\* *<output> = ring->buffers[ring->read_idx % DESC_COUNT].<field>;
C_read(pc, field, next) ==
    LET r    == View("cons")
        slot == U32Mod(r.read_idx, DESC_COUNT)
    IN  /\ c.pc = pc
        /\ out' = [out EXCEPT ![field] = r.buffers[slot][field]]
        /\ c' = [c EXCEPT !.pc = next]
        /\ live' = IF pc = "r_cookie" THEN live \ {slot} ELSE live
        /\ Frame
        /\ UNCHANGED <<ring, enqueued, dequeued, clobbered, p, sb>>

C_r_addr == C_read("r_addr", "encoded_addr", "r_len")

C_r_len == C_read("r_len", "len", "r_cookie")

C_r_cookie == C_read("r_cookie", "cookie", "rel")

\* THREAD_MEMORY_RELEASE();
C_rel ==
    /\ c.pc = "rel"
    /\ Released("cons")
    /\ c' = [c EXCEPT !.pc = "inc"]
    /\ Frame
    /\ UNCHANGED <<ring, out, enqueued, dequeued, live, clobbered, p, sb>>

\* ring->read_idx++; return 0;
C_inc ==
    /\ c.pc = "inc"
    /\ Store("cons", <<"read_idx">>, U32Inc(View("cons").read_idx))
    /\ c' = [c EXCEPT !.pc = "idle", !.ret = 0]
    /\ dequeued' = Append(dequeued, out)
    /\ Frame
    /\ UNCHANGED <<out, enqueued, live, clobbered, p>>

\* the steps of a running enqueue, and of a running dequeue
ProdRun == P_full \/ P_w_addr \/ P_w_len \/ P_w_cookie \/ P_inc \/ P_rel

ConsRun == C_empty \/ C_r_addr \/ C_r_len \/ C_r_cookie \/ C_rel \/ C_inc

NextSteps ==
    \/ P_call \/ P_full \/ P_w_addr \/ P_w_len \/ P_w_cookie \/ P_inc \/ P_rel
    \/ C_call \/ C_empty \/ C_r_addr \/ C_r_len \/ C_r_cookie \/ C_rel \/ C_inc

SpecSteps == Init /\ [][NextSteps]_vars

\* SpecLive: the producer repeats an enqueue that returned -1 until it
\* succeeds, the consumer keeps calling dequeue, and both keep running

\* the producer calls enqueue with the next descriptor
P_new == p.ret # -1 /\ P_call

\* the producer calls enqueue again with the descriptor that was refused
P_retry ==
    /\ p.pc = "idle"
    /\ p.ret = -1
    /\ p' = [p EXCEPT !.pc = "full"]
    /\ Frame
    /\ UNCHANGED <<ring, out, enqueued, dequeued, live, clobbered, c, sb>>

NextLive == P_new \/ P_retry \/ ProdRun \/ C_call \/ ConsRun

SpecLive ==
    /\ Init
    /\ [][NextLive]_vars
    /\ WF_vars(P_retry \/ ProdRun)
    /\ WF_vars(C_call \/ ConsRun)

InitWeak == InitRing("weak")

FlushProd == Flush("prod")

FlushCons == Flush("cons")

NextWeak == NextSteps \/ FlushProd \/ FlushCons

SpecWeak == InitWeak /\ [][NextWeak]_vars

-----------------------------------------------------------------------------
(* SpecChan: endpoint A offers its buffers with enqueue_avail and reclaims *)
(* them with dequeue_used; endpoint B takes them with dequeue_avail and    *)
(* returns them, oldest first, with enqueue_used.                          *)

InitChannel(budget) ==
    /\ DESC_COUNT \in DescCounts
    /\ \E c0 \in StartCursors : InitHandle(c0, budget)
    /\ ring = ring_buffer(DESC_COUNT, U32Zero)
    /\ out = ZeroDesc
    /\ calls = <<>>
    /\ enqueued = <<>>
    /\ dequeued = <<>>
    /\ live = {}
    /\ clobbered = FALSE
    /\ mm = "sc"
    /\ p = IdleProd
    /\ c = IdleCons
    /\ sb = NoStores

InitChan == InitChannel(MaxChanCalls)

ChanCall(op, ret, d) == [op |-> op, ret |-> ret, desc |-> d]

\* A: enqueue_avail(&handle, d.encoded_addr, d.len, d.cookie) for a buffer it holds
A_offer ==
    \E d \in ends.a_held :
        LET res == enqueue_avail(handle, d.encoded_addr, d.len, d.cookie)
        IN  /\ Len(clog) < ends.budget
            /\ handle' = res.handle
            /\ clog' = Append(clog, ChanCall("enqueue_avail", res.ret, d))
            /\ ends' = IF res.ret = 0
                        THEN [ends EXCEPT !.a_held = @ \ {d}, !.offered = Append(@, d)]
                        ELSE ends
            /\ UNCHANGED <<DESC_COUNT, ringvars, invoked>>

\* B: dequeue_avail(&handle, &b_out.encoded_addr, &b_out.len, &b_out.cookie)
B_take ==
    LET res == dequeue_avail(handle, ends.b_out)
    IN  /\ Len(clog) < ends.budget
        /\ handle' = res.handle
        /\ clog' = Append(clog, ChanCall("dequeue_avail", res.ret, res.out))
        /\ ends' = IF res.ret = 0
                    THEN [ends EXCEPT !.b_out = res.out,
                                      !.b_held = Append(@, res.out),
                                      !.taken = Append(@, res.out)]
                    ELSE [ends EXCEPT !.b_out = res.out]
        /\ UNCHANGED <<DESC_COUNT, ringvars, invoked>>

\* the length B reports for a buffer of length len: the even part it used,
\* so that some buffers come back with their length and some with a new one
UsedLen(len) == len - (len % 2)

\* B: enqueue_used of the oldest descriptor it holds, address and cookie as
\* taken, length updated
B_return ==
    /\ ends.b_held # <<>>
    /\ LET d   == [Head(ends.b_held) EXCEPT !.len = UsedLen(@)]
           res == enqueue_used(handle, d.encoded_addr, d.len, d.cookie)
       IN  /\ Len(clog) < ends.budget
           /\ handle' = res.handle
           /\ clog' = Append(clog, ChanCall("enqueue_used", res.ret, d))
           /\ ends' = IF res.ret = 0
                       THEN [ends EXCEPT !.b_held = Tail(@)]
                       ELSE ends
           /\ UNCHANGED <<DESC_COUNT, ringvars, invoked>>

\* A: dequeue_used(&handle, &a_out.encoded_addr, &a_out.len, &a_out.cookie)
A_reclaim ==
    LET res == dequeue_used(handle, ends.a_out)
    IN  /\ Len(clog) < ends.budget
        /\ handle' = res.handle
        /\ clog' = Append(clog, ChanCall("dequeue_used", res.ret, res.out))
        /\ ends' = IF res.ret = 0
                    THEN [ends EXCEPT !.a_out = res.out,
                                      !.a_held = @ \cup {res.out},
                                      !.reclaimed = Append(@, res.out)]
                    ELSE [ends EXCEPT !.a_out = res.out]
        /\ UNCHANGED <<DESC_COUNT, ringvars, invoked>>

\* notify(&handle)
Notify ==
    /\ ends.notifies < MaxNotify
    /\ invoked' = invoked \o notify(handle)
    /\ ends' = [ends EXCEPT !.notifies = @ + 1]
    /\ UNCHANGED <<DESC_COUNT, ringvars, handle, clog>>

\* register_notification(&handle, fn) with another callback
Register ==
    \E fn \in Callbacks \ {handle.notify} :
        /\ handle' = register_notification(handle, fn)
        /\ UNCHANGED <<DESC_COUNT, ringvars, ends, clog, invoked>>

NextChan == A_offer \/ B_take \/ B_return \/ A_reclaim

SpecChan == InitChan /\ [][NextChan]_vars

InitSignal == InitChannel(MaxSignalCalls)

NextSignal == NextChan \/ Notify \/ Register

SpecSignal == InitSignal /\ [][NextSignal]_vars

-----------------------------------------------------------------------------
(* Properties of Spec *)

Last(s) == s[Len(s)]

\* the step is a call of op that completes
Called(op) == Len(calls') = Len(calls) + 1 /\ Last(calls').op = op

\* the cursor has been incremented past 2^32 - 1 since the ring was started
PastWrap(cursor, increments) == cursor.hi = 0 /\ cursor.lo < increments

\* C1: the i-th successful dequeue returns exactly the descriptor passed to
\* the i-th successful enqueue, for every slot count and every sequence of
\* calls.
C1_Fifo ==
    \A i \in 1..Len(dequeued) : i <= Len(enqueued) /\ dequeued[i] = enqueued[i]

\* C3: enqueue never writes a slot that holds a descriptor which has been
\* enqueued and not yet dequeued, for every slot count and on both sides of
\* the 2^32 wrap of the cursors.
C3_NoOverwrite == clobbered = FALSE

\* C5: between calls, ring_empty holds exactly when as many enqueues as
\* dequeues have succeeded, and ring_full exactly when the successful
\* enqueues exceed the successful dequeues by DESC_COUNT - 1.
C5_EmptyFull ==
    /\ ring_empty(ring) <=> (Len(enqueued) = Len(dequeued))
    /\ ring_full(ring) <=> (Len(enqueued) = Len(dequeued) + DESC_COUNT - 1)

\* C5 witness: a ring filled to DESC_COUNT - 1 entries after a dequeue took place
C5_Witness ==
    /\ ring_full(ring)
    /\ Len(dequeued) > 0
    /\ Outstanding = DESC_COUNT - 1

\* C6: once write_idx has been driven past the 2^32 boundary (read_idx
\* following it across), ring_empty answers TRUE exactly when no entry is
\* outstanding and ring_full exactly when DESC_COUNT - 1 entries are.
C6_WrapEmptyFull ==
    PastWrap(ring.write_idx, Len(enqueued)) =>
        /\ ring_empty(ring) = (Outstanding = 0)
        /\ ring_full(ring) = (Outstanding = DESC_COUNT - 1)

\* C6 witness: both cursors are past the boundary, the slot count is not a
\* power of two and the ring is full
C6_Witness ==
    /\ PastWrap(ring.write_idx, Len(enqueued))
    /\ PastWrap(ring.read_idx, Len(dequeued))
    /\ DESC_COUNT = 3
    /\ ring_full(ring)

\* the first n calls were enqueues
FirstEnqueues(n) ==
    /\ Len(calls) >= n
    /\ \A j \in 1..n : calls[j].op = "enqueue"

\* the calls started with DESC_COUNT enqueues, a dequeue, and k more enqueues
FillDrainOne(k) ==
    /\ Len(calls) >= DESC_COUNT + 1 + k
    /\ FirstEnqueues(DESC_COUNT)
    /\ calls[DESC_COUNT + 1].op = "dequeue"
    /\ \A j \in 1..k : calls[DESC_COUNT + 1 + j].op = "enqueue"

\* C8: from the empty ring the first DESC_COUNT - 1 consecutive enqueues
\* succeed and the DESC_COUNT-th fails; the dequeue after them succeeds, then
\* one more enqueue succeeds and the one after it fails.
C8_Capacity ==
    /\ \A i \in 1..Len(calls) :
          FirstEnqueues(i) => (calls[i].ret = 0 <=> i <= DESC_COUNT - 1)
    /\ FillDrainOne(0) => calls[DESC_COUNT + 1].ret = 0
    /\ FillDrainOne(1) => calls[DESC_COUNT + 2].ret = 0
    /\ FillDrainOne(2) => calls[DESC_COUNT + 3].ret = -1

\* C8 witness: the whole scenario has been run on a ring of more than 2 slots
C8_Witness == DESC_COUNT > 2 /\ FillDrainOne(2)

\* C9: a dequeue on an empty ring returns -1 and changes neither the cursors,
\* nor a slot, nor the caller's addr, len and cookie.
C9_DequeueEmpty ==
    [][(Called("dequeue") /\ ring_empty(ring)) =>
          /\ Last(calls').ret = -1
          /\ ring' = ring
          /\ out' = out]_vars

\* C9 witness: a dequeue failed after an earlier one had filled the outputs
C9_Witness ==
    /\ Len(calls) > 0
    /\ Last(calls) = [op |-> "dequeue", ret |-> -1]
    /\ Len(dequeued) > 0
    /\ out = Last(dequeued)

\* C10: enqueue returns -1 exactly when ring_full holds at the call and 0
\* otherwise, and a failed enqueue changes neither the cursors nor a slot.
C10_EnqueueFull ==
    [][Called("enqueue") =>
          /\ Last(calls').ret = (IF ring_full(ring) THEN -1 ELSE 0)
          /\ (Last(calls').ret = -1 => ring' = ring)]_vars

\* C10 witness: an enqueue failed on a ring holding DESC_COUNT - 1 entries
C10_Witness ==
    /\ Len(calls) > 0
    /\ Last(calls) = [op |-> "enqueue", ret |-> -1]
    /\ Outstanding = DESC_COUNT - 1

\* the cursor moved from old to new by exactly one (mod 2^32)
OneUp(old, new) == U32Sub(new, old) = U32Of(1)

\* C14: write_idx changes only in a successful enqueue and read_idx only in
\* a successful dequeue, each time by exactly +1 (mod 2^32); enqueue leaves
\* read_idx and every slot other than write_idx % DESC_COUNT alone, and
\* dequeue leaves write_idx and every slot alone.
C14_CursorFrame ==
    [][/\ ring'.write_idx # ring.write_idx =>
             /\ Called("enqueue") /\ Last(calls').ret = 0
             /\ OneUp(ring.write_idx, ring'.write_idx)
       /\ ring'.read_idx # ring.read_idx =>
             /\ Called("dequeue") /\ Last(calls').ret = 0
             /\ OneUp(ring.read_idx, ring'.read_idx)
       /\ (Called("enqueue") /\ Last(calls').ret = 0) =>
             OneUp(ring.write_idx, ring'.write_idx)
       /\ (Called("dequeue") /\ Last(calls').ret = 0) =>
             OneUp(ring.read_idx, ring'.read_idx)
       /\ Called("enqueue") =>
             /\ ring'.read_idx = ring.read_idx
             /\ \A s \in Slots :
                   s # U32Mod(ring.write_idx, DESC_COUNT) =>
                       ring'.buffers[s] = ring.buffers[s]
       /\ Called("dequeue") =>
             /\ ring'.write_idx = ring.write_idx
             /\ ring'.buffers = ring.buffers]_vars

\* C14 witness: successful enqueues and dequeues have moved write_idx across
\* the 2^32 boundary while read_idx is still below it
C14_Witness ==
    /\ Len(enqueued) >= 2
    /\ Len(dequeued) >= 1
    /\ ring.write_idx.hi = 0
    /\ ring.read_idx.hi = Half - 1

\* C18: as its documentation says, enqueue returns -1 when the ring is empty
\* and 0 otherwise.
C18_EnqueueDoc ==
    [][Called("enqueue") =>
          Last(calls').ret = (IF ring_empty(ring) THEN -1 ELSE 0)]_vars

-----------------------------------------------------------------------------
(* Properties of SpecSteps and SpecWeak *)

\* the consumer has seen the ring non-empty and is reading a slot
Reading == c.pc \in {"r_addr", "r_len", "r_cookie"}

\* C2: under the memory model in which stores not separated by a barrier
\* become visible in either order, a consumer that has observed the
\* incremented write_idx finds the slot it reads fully written with the
\* descriptor of the matching enqueue.
C2_NoStaleSlot ==
    (Reading /\ Len(enqueued) > Len(dequeued)) =>
        ring.buffers[U32Mod(View("cons").read_idx, DESC_COUNT)]
            = enqueued[Len(dequeued) + 1]

\* C4: under any interleaving of the steps of enqueue and dequeue,
\* write_idx - read_idx (mod 2^32) is between 0 and DESC_COUNT - 1.
C4_Span ==
    LET d == U32Sub(ring.write_idx, ring.read_idx)
    IN  d.hi = 0 /\ d.lo <= DESC_COUNT - 1

\* C4 witness: DESC_COUNT - 1 entries are outstanding while the producer is
\* about to test ring_full and the consumer is in the middle of a dequeue
C4_Witness ==
    /\ U32Sub(ring.write_idx, ring.read_idx) = U32Of(DESC_COUNT - 1)
    /\ DESC_COUNT > 2
    /\ p.pc = "full"
    /\ c.pc = "rel"

\* C7: under any interleaving, a step that changes the contents of a slot
\* changes a slot that holds no entry the consumer has yet to read out.
C7_NoPrematureOverwrite ==
    [][\A s \in Slots : ring'.buffers[s] # ring.buffers[s] => s \notin live]_vars

\* an upper bound on the steps enqueue still takes from position pc
EnqueueStepsLeft(pc) ==
    CASE pc = "idle" -> 0
      [] pc = "full" -> 6
      [] pc = "w_addr" -> 5
      [] pc = "w_len" -> 4
      [] pc = "w_cookie" -> 3
      [] pc = "inc" -> 2
      [] pc = "rel" -> 1

\* an upper bound on the steps dequeue still takes from position pc
DequeueStepsLeft(pc) ==
    CASE pc = "idle" -> 0
      [] pc = "empty" -> 6
      [] pc = "r_addr" -> 5
      [] pc = "r_len" -> 4
      [] pc = "r_cookie" -> 3
      [] pc = "rel" -> 2
      [] pc = "inc" -> 1

\* C17: a running enqueue or dequeue can always take its next step without
\* any step of the other endpoint, and every step brings it closer to its
\* return: on a full (empty) ring the call returns -1 in its first step.
C17_NonBlocking ==
    /\ [](p.pc # "idle" => ENABLED (ProdRun /\ p' # p))
    /\ [](c.pc # "idle" => ENABLED (ConsRun /\ c' # c))
    /\ [][/\ (p' # p /\ p.pc # "idle") =>
                EnqueueStepsLeft(p'.pc) < EnqueueStepsLeft(p.pc)
          /\ (c' # c /\ c.pc # "idle") =>
                DequeueStepsLeft(c'.pc) < DequeueStepsLeft(c.pc)]_vars

\* C17 witness: the producer got -1 from a full ring while the consumer had
\* not taken a single step
C17_Witness ==
    /\ p.pc = "idle" /\ p.ret = -1
    /\ c = IdleCons
    /\ dequeued = <<>>
    /\ ring_full(ring)

\* C19: under sequentially consistent interleaving of the single accesses,
\* the address, length and cookie a successful dequeue returns all come from
\* one and the same enqueue call.
C19_NoTornDescriptor ==
    \A i \in 1..Len(dequeued) :
        \E j \in 1..Len(enqueued) : dequeued[i] = enqueued[j]

-----------------------------------------------------------------------------
(* Properties of SpecLive *)

\* C20: with a retrying producer and a polling consumer, both weakly fair,
\* every descriptor successfully enqueued is eventually dequeued, every
\* enqueue refused with -1 is eventually followed by a successful retry, and
\* the ring is never full and empty at once.
C20_Progress ==
    /\ \A n \in 1..MaxEnq :
          (Len(enqueued) >= n) ~> (Len(dequeued) >= n /\ dequeued[n] = enqueued[n])
    /\ (p.pc = "idle" /\ p.ret = -1) ~> (p.pc = "idle" /\ p.ret = 0)
    /\ [](~(ring_full(ring) /\ ring_empty(ring)))

-----------------------------------------------------------------------------
(* Properties of SpecChan and SpecSignal *)

\* the step is a call of op on the channel that completes
ChanCalled(op) == Len(clog') = Len(clog) + 1 /\ Last(clog').op = op

\* two descriptors of the same buffer: same address, same cookie
SameBuffer(d, e) == d.encoded_addr = e.encoded_addr /\ d.cookie = e.cookie

\* cursor a moved on by k
RECURSIVE U32Plus(_, _)
U32Plus(a, k) == IF k = 0 THEN a ELSE U32Plus(U32Inc(a), k - 1)

\* the descriptors queued in ring r, oldest first
Queued(r) ==
    [k \in 1..U32Sub(r.write_idx, r.read_idx).lo |->
        r.buffers[U32Mod(U32Plus(r.read_idx, k - 1), DESC_COUNT)]]

\* number of entries of sequence q that describe buffer b
Occurrences(q, b) == Cardinality({i \in 1..Len(q) : SameBuffer(q[i], b)})

\* number of places buffer b is in: held by A, queued in avail, held by B,
\* queued in used
Places(b) ==
    Cardinality({d \in ends.a_held : SameBuffer(d, b)})
      + Occurrences(Queued(handle.avail_ring), b)
      + Occurrences(ends.b_held, b)
      + Occurrences(Queued(handle.used_ring), b)

\* C11: when B passes on what it takes, address and cookie unchanged, the
\* i-th descriptor A gets from dequeue_used is the i-th B got from
\* dequeue_avail, with the address and cookie of the i-th A offered.
C11_RoundTrip ==
    \A i \in 1..Len(ends.reclaimed) :
        /\ i <= Len(ends.taken)
        /\ SameBuffer(ends.reclaimed[i], ends.taken[i])
        /\ SameBuffer(ends.reclaimed[i], ends.offered[i])

\* C12: every buffer A put into circulation is in exactly one place, and an
\* endpoint comes to hold a descriptor only in a successful dequeue.
C12_OnePlace ==
    /\ [](\A b \in Descs : Places(b) = 1)
    /\ [][/\ ends'.b_held # ends.b_held /\ Len(ends'.b_held) > Len(ends.b_held) =>
                ChanCalled("dequeue_avail") /\ Last(clog').ret = 0
          /\ ~(ends'.a_held \subseteq ends.a_held) =>
                ChanCalled("dequeue_used") /\ Last(clog').ret = 0]_vars

\* the calls made are the run enqueue_avail(A), enqueue_avail(B),
\* dequeue_avail, enqueue_used(A), dequeue_avail, enqueue_used(B),
\* dequeue_used, dequeue_used on a channel of 4 slots
HandoffRun ==
    /\ DESC_COUNT = 4
    /\ Len(clog) = 8
    /\ [i \in 1..8 |-> clog[i].op] =
          <<"enqueue_avail", "enqueue_avail", "dequeue_avail", "enqueue_used",
            "dequeue_avail", "enqueue_used", "dequeue_used", "dequeue_used">>

\* every call of the run succeeded, the two dequeue_used returned the first
\* and then the second buffer offered, and both rings are empty
HandoffResult ==
    /\ \A i \in 1..8 : clog[i].ret = 0
    /\ SameBuffer(clog[7].desc, clog[1].desc)
    /\ SameBuffer(clog[8].desc, clog[2].desc)
    /\ ring_empty(handle.avail_ring)
    /\ ring_empty(handle.used_ring)

\* the four cursors of the channel
Cursors ==
    {handle.avail_ring.write_idx, handle.avail_ring.read_idx,
     handle.used_ring.write_idx, handle.used_ring.read_idx}

\* C13 as claimed: after the run every call has succeeded, A then B came
\* back, both rings are empty and each of the four cursors is at its
\* original slot position.
C13_HandoffNetsToOrigin ==
    HandoffRun =>
        /\ HandoffResult
        /\ \A cur \in Cursors :
              U32Mod(cur, DESC_COUNT) = U32Mod(ends.origin, DESC_COUNT)

\* C13 as amended: after the run every call has succeeded, A then B came
\* back, both rings are empty and each of the four cursors is exactly 2
\* above its original value (mod 2^32), two slot positions further on.
C13_HandoffAdvancesByTwo ==
    HandoffRun =>
        /\ HandoffResult
        /\ \A cur \in Cursors :
              /\ U32Sub(cur, ends.origin) = U32Of(2)
              /\ U32Mod(cur, DESC_COUNT) = (U32Mod(ends.origin, DESC_COUNT) + 2) % DESC_COUNT

\* C13 witness: the run has been made on rings that started below the
\* 2^32 boundary and ended above it
C13_Witness ==
    /\ HandoffRun
    /\ ends.origin # U32Zero
    /\ handle.used_ring.read_idx.hi = 0

\* C15: enqueue_avail and dequeue_avail leave the used ring alone,
\* enqueue_used and dequeue_used leave the avail ring alone, a successful
\* call moves a cursor of its own ring, and none of the four changes the
\* notify callback of the handle.
C15_RingFrame ==
    [][/\ (ChanCalled("enqueue_avail") \/ ChanCalled("dequeue_avail")) =>
             /\ handle'.used_ring = handle.used_ring
             /\ handle'.notify = handle.notify
             /\ Last(clog').ret = 0 => handle'.avail_ring # handle.avail_ring
       /\ (ChanCalled("enqueue_used") \/ ChanCalled("dequeue_used")) =>
             /\ handle'.avail_ring = handle.avail_ring
             /\ handle'.notify = handle.notify
             /\ Last(clog').ret = 0 => handle'.used_ring # handle.used_ring]_vars

\* C15 witness: all four calls have succeeded on a handle whose callback
\* had been replaced
C15_Witness ==
    /\ Len(ends.reclaimed) > 0
    /\ handle.notify = "cb2"
    /\ \A i \in 1..Len(clog) : clog[i].ret = 0

\* C16: every call of notify invokes the callback stored in the handle at
\* that moment, once, whatever the rings hold, and changes no ring.
C16_NotifyOnce ==
    [][ends'.notifies # ends.notifies =>
          /\ invoked' = Append(invoked, handle.notify)
          /\ handle' = handle]_vars

\* C16 witness: notify was called on an empty channel and again, after the
\* callback had been replaced, with a ring full
C16_Witness ==
    /\ Len(invoked) = 2
    /\ invoked[1] # invoked[2]
    /\ ring_full(handle.avail_ring)

====
